---- MODULE Spec2Model ----
(***************************************************************************)
(* Model of earthquakes.py: the USGS GeoJSON fetcher, the field extractors *)
(* (magnitude, location, year, count), the strongest-earthquake scan and   *)
(* the per-year series behind the two charts.                              *)
(*                                                                         *)
(* Python values are tagged records: the tag k tells None, int, float,     *)
(* str, list and dict apart.  A dict is Dict(f), f a function from its     *)
(* keys to values, so that an absent key (dict.get falls back to its       *)
(* default) and a key holding null (dict.get returns None) stay distinct.  *)
(* A function outcome is Return(v) or Raise(type, message).                *)
(***************************************************************************)
EXTENDS Integers, Sequences, FiniteSets, TLC

VARIABLES data, earthquake, earthquakes, tz, response, called, outcome,
          calls, artifacts

vars == <<data, earthquake, earthquakes, tz, response, called, outcome,
          calls, artifacts>>

(***************************************************************************)
(* Bounds of the model.                                                    *)
(***************************************************************************)
MaxMag == 2        \* magnitudes are 1..MaxMag
MaxCoords == 3     \* a coordinates list has 0..MaxCoords entries
MaxLen == 2        \* features of a collection handed to get_maximum
MaxQuakes == 3     \* records handed to the per-year functions
MaxCount == 2      \* declared metadata.count is 0..MaxCount
MaxCountLen == 2   \* features of a collection handed to count_earthquakes

(***************************************************************************)
(* Python values.                                                          *)
(***************************************************************************)
None == [k |-> "None"]
PyInt(n) == [k |-> "int", v |-> n]
\* the integer 1000*q + r, 0 <= r < 1000 (an epoch time in milliseconds)
PyIntMs(q, r) == [k |-> "int", q |-> q, r |-> r]
Float(n) == [k |-> "float", v |-> n]
\* the float num/den in lowest terms
Frac(num, den) == [k |-> "float", num |-> num, den |-> den]
NaN == [k |-> "nan"]
NegInf == [k |-> "-inf"]
PyStr(t) == [k |-> "str", s |-> t]
List(s) == [k |-> "list", items |-> s]
Dict(f) == [k |-> "dict", d |-> f]
EmptyDict == Dict(<<>>)
EmptyList == List(<<>>)

Return(v) == [kind |-> "return", val |-> v]
Raise(type, msg) == [kind |-> "raise", exc |-> type, msg |-> msg]

\* None.get(...): the receiver of .get is null
NoneHasNoGet == Raise("AttributeError", "'NoneType' object has no attribute 'get'")
\* len(None)
NoneHasNoLen == Raise("TypeError", "object of type 'NoneType' has no len()")

\* d.get(key, default) on a dict d
DictGet(o, key, default) == IF key \in DOMAIN o.d THEN o.d[key] ELSE default

\* float(x) of a JSON integer
PyFloat(x) == Float(x.v)

\* a != b on floats: NaN differs from everything, itself included
FloatNe(a, b) == a.k = "nan" \/ b.k = "nan" \/ a # b

\* a > b on floats (a never -inf here, b possibly -inf, neither compares when NaN)
FloatGt(a, b) ==
    IF a.k = "nan" \/ b.k = "nan" THEN FALSE
    ELSE IF a.k = "-inf" THEN FALSE
    ELSE IF b.k = "-inf" THEN TRUE
    ELSE a.v > b.v

\* isnan(m)
isnan(m) == m.k = "nan"

(***************************************************************************)
(* Field extractors.                                                       *)
(***************************************************************************)
get_magnitude(eq) ==
    LET props == DictGet(eq, "properties", EmptyDict) IN
    IF props.k # "dict" THEN NoneHasNoGet
    ELSE LET mag == DictGet(props, "mag", None) IN
         IF mag # None THEN Return(PyFloat(mag)) ELSE Return(NaN)

MissingCoordinates == Raise("ValueError", "Earthquake feature missing coordinates.")

get_location(eq) ==
    LET geom == DictGet(eq, "geometry", EmptyDict) IN
    IF geom.k # "dict" THEN NoneHasNoGet
    ELSE LET coords == DictGet(geom, "coordinates", EmptyList) IN
         IF ~(coords.k = "list" /\ Len(coords.items) >= 2)
         THEN MissingCoordinates
         ELSE LET lon == coords.items[1]
                  lat == coords.items[2]
              IN Return(<<PyFloat(lat), PyFloat(lon)>>)

\* year of the proleptic Gregorian date that lies `days` days after 1970-01-01
CivilYear(days) ==
    LET z == days + 719468
        era == z \div 146097
        doe == z - era * 146097
        yoe == (doe - doe \div 1460 + doe \div 36524 - doe \div 146096) \div 365
        doy == doe - (365 * yoe + yoe \div 4 - yoe \div 100)
        mp == (5 * doy + 2) \div 153
    IN yoe + era * 400 + (IF mp < 10 THEN 0 ELSE 1)

\* date.fromtimestamp(ts_ms / 1000).year in a zone `offset` seconds east of UTC
YearFromTimestamp(ts_ms, offset) == CivilYear((ts_ms.q + offset) \div 86400)

NoTime == Raise("ValueError", "Feature has no 'properties.time'.")

get_year(eq, offset) ==
    LET props == DictGet(eq, "properties", EmptyDict) IN
    IF props.k # "dict" THEN NoneHasNoGet
    ELSE LET ts_ms == DictGet(props, "time", None) IN
         IF ts_ms = None THEN NoTime
         ELSE Return(YearFromTimestamp(ts_ms, offset))

(***************************************************************************)
(* Input domains: GeoJSON as the USGS schema shapes it.  A sub-object or a *)
(* scalar field is absent, null or well-typed: get_data only looks for the *)
(* features key, and GeoJSON (RFC 7946) lets the properties and geometry   *)
(* members of a feature be null.  Values of the wrong type are left out,   *)
(* except for metadata.count, which count_earthquakes tests with           *)
(* isinstance.                                                             *)
(***************************************************************************)
\* the ways a key can appear in a dict: absent, or present with a value of S
Item(key, S) == {<<>>} \cup {key :> v : v \in S}

Mags == {PyInt(n) : n \in 1..MaxMag}
\* 2000-12-31T23:30:00.500Z and 2003-06-15T00:00:00Z
Timestamps == {PyIntMs(978305400, 500), PyIntMs(1055635200, 0)}
\* seconds east of UTC of the local zone: GMT and BST
TzOffsets == {0, 3600}

PropertiesVals ==
    {None} \cup {Dict(a @@ b) : a \in Item("mag", {None} \cup Mags),
                                b \in Item("time", {None} \cup Timestamps)}

Lons == {-3, 1}
Lats == {54}
Depth == 10
CoordSeq(lon, lat, n) ==
    [i \in 1..n |-> IF i = 1 THEN PyInt(lon) ELSE IF i = 2 THEN PyInt(lat) ELSE PyInt(Depth)]
CoordLists == {List(CoordSeq(lon, lat, n)) : lon \in Lons, lat \in Lats, n \in 0..MaxCoords}

GeometryVals ==
    {None} \cup {Dict(c) : c \in Item("coordinates", {None} \cup CoordLists)}

Features ==
    {Dict(p @@ g) : p \in Item("properties", PropertiesVals),
                    g \in Item("geometry", GeometryVals)}

SeqsUpTo(S, n) == UNION {[1..m -> S] : m \in 0..n}

(***************************************************************************)
(* Specification of the extractors: one record, one extractor call.        *)
(***************************************************************************)
InitExtract ==
    /\ earthquake \in Features
    /\ tz \in TzOffsets
    /\ data = None
    /\ earthquakes = <<>>
    /\ response = None
    /\ called = "none"
    /\ outcome = None
    /\ calls = 0
    /\ artifacts = {}

GetMagnitude ==
    /\ called = "none"
    /\ called' = "get_magnitude"
    /\ outcome' = get_magnitude(earthquake)
    /\ UNCHANGED <<data, earthquake, earthquakes, tz, response, calls, artifacts>>

GetLocation ==
    /\ called = "none"
    /\ called' = "get_location"
    /\ outcome' = get_location(earthquake)
    /\ UNCHANGED <<data, earthquake, earthquakes, tz, response, calls, artifacts>>

GetYear ==
    /\ called = "none"
    /\ called' = "get_year"
    /\ outcome' = get_year(earthquake, tz)
    /\ UNCHANGED <<data, earthquake, earthquakes, tz, response, calls, artifacts>>

NextExtract == GetMagnitude \/ GetLocation \/ GetYear

SpecExtract == InitExtract /\ [][NextExtract]_vars

(***************************************************************************)
(* count_earthquakes and get_maximum.                                      *)
(***************************************************************************)
\* isinstance(x, int)
IsInt(x) == x.k = "int"

count_earthquakes(d) ==
    LET metadata == DictGet(d, "metadata", EmptyDict) IN
    IF metadata.k # "dict" THEN NoneHasNoGet
    ELSE LET meta_count == DictGet(metadata, "count", None)
             features == DictGet(d, "features", EmptyList)
         IN IF IsInt(meta_count) THEN Return(PyInt(meta_count.v))
            ELSE IF features.k # "list" THEN NoneHasNoLen
            ELSE Return(PyInt(Len(features.items)))

NoFeatures == Raise("ValueError", "No earthquake features in data.")
NoValidMagnitude == Raise("ValueError", "No features contained a valid magnitude.")

\* `not x` for None and lists
Falsy(x) == x = None \/ (x.k = "list" /\ Len(x.items) = 0)

\* the for loop of get_maximum from feature i on; a raise of get_magnitude ends it
RECURSIVE MaxScan(_, _, _, _)
MaxScan(features, i, max_mag, max_feature) ==
    IF i > Len(features)
    THEN Return([max_mag |-> max_mag, max_feature |-> max_feature])
    ELSE LET f == features[i]
             m == get_magnitude(f)
         IN IF m.kind = "raise" THEN m
            ELSE IF FloatNe(m.val, m.val)
                 THEN MaxScan(features, i + 1, max_mag, max_feature)
            ELSE IF FloatGt(m.val, max_mag)
                 THEN MaxScan(features, i + 1, m.val, f)
            ELSE MaxScan(features, i + 1, max_mag, max_feature)

get_maximum(d) ==
    LET features == DictGet(d, "features", EmptyList) IN
    IF Falsy(features) THEN NoFeatures
    ELSE LET scan == MaxScan(features.items, 1, NegInf, None) IN
         IF scan.kind = "raise" THEN scan
         ELSE IF scan.val.max_feature = None THEN NoValidMagnitude
         ELSE LET max_loc == get_location(scan.val.max_feature) IN
              IF max_loc.kind = "raise" THEN max_loc
              ELSE Return(<<scan.val.max_mag, max_loc.val>>)

(***************************************************************************)
(* Specification of get_maximum: one collection, one call.  The records    *)
(* carry no time, which get_maximum never reads.                           *)
(***************************************************************************)
HasTime(e) ==
    /\ "properties" \in DOMAIN e.d
    /\ e.d["properties"].k = "dict"
    /\ "time" \in DOMAIN e.d["properties"].d

MaxFeatures == {e \in Features : ~HasTime(e)}

\* the collections whose features list has at most n records
MaxCollections(n) ==
    {Dict(f) : f \in Item("features",
                          {None} \cup {List(s) : s \in SeqsUpTo(MaxFeatures, n)})}

InitMax ==
    /\ data \in MaxCollections(MaxLen)
    /\ earthquake = None
    /\ tz = 0
    /\ earthquakes = <<>>
    /\ response = None
    /\ called = "none"
    /\ outcome = None
    /\ calls = 0
    /\ artifacts = {}

GetMaximum ==
    /\ called = "none"
    /\ called' = "get_maximum"
    /\ outcome' = get_maximum(data)
    /\ UNCHANGED <<data, earthquake, earthquakes, tz, response, calls, artifacts>>

NextMax == GetMaximum

SpecMax == InitMax /\ [][NextMax]_vars

(***************************************************************************)
(* Specification of count_earthquakes: one collection, one call.           *)
(***************************************************************************)
\* a count that is null, the string "2", or an integer
CountFields == {None, PyStr("2")} \cup {PyInt(n) : n \in 0..MaxCount}
MetadataVals == {None} \cup {Dict(c) : c \in Item("count", CountFields)}
CountFeatures == {EmptyDict, Dict("properties" :> None)}

CountCollections ==
    {Dict(m @@ f) :
        m \in Item("metadata", MetadataVals),
        f \in Item("features",
                   {None} \cup {List(s) : s \in SeqsUpTo(CountFeatures, MaxCountLen)})}

InitCount ==
    /\ data \in CountCollections
    /\ earthquake = None
    /\ tz = 0
    /\ earthquakes = <<>>
    /\ response = None
    /\ called = "none"
    /\ outcome = None
    /\ calls = 0
    /\ artifacts = {}

CountEarthquakes ==
    /\ called = "none"
    /\ called' = "count_earthquakes"
    /\ outcome' = count_earthquakes(data)
    /\ UNCHANGED <<data, earthquake, earthquakes, tz, response, calls, artifacts>>

NextCount == CountEarthquakes

SpecCount == InitCount /\ [][NextCount]_vars

(***************************************************************************)
(* The per-year aggregation and the series behind the two charts.  A       *)
(* dict[int, ...] keyed by year is a function on its keys; its lists are   *)
(* sequences.                                                              *)
(***************************************************************************)
\* by_year[y].append(m) on a defaultdict(list)
AppendOverwrites(by_year, y, m) == (y :> <<m>>) @@ by_year
DefaultAppend(by_year, y, m) ==
    IF y \in DOMAIN by_year
    THEN [by_year EXCEPT ![y] = Append(@, m)]
    ELSE by_year @@ (y :> <<m>>)

\* by_year[y] += 1 on a defaultdict(int)
IncrAddsTwo(by_year, y) ==
    IF y \in DOMAIN by_year
    THEN [by_year EXCEPT ![y] = @ + 2]
    ELSE by_year @@ (y :> 1)
DefaultIncr(by_year, y) ==
    IF y \in DOMAIN by_year
    THEN [by_year EXCEPT ![y] = @ + 1]
    ELSE by_year @@ (y :> 1)

\* the for loop of get_magnitudes_per_year from record i on: a raise of
\* get_year is swallowed, a raise of get_magnitude is not
RECURSIVE MagnitudesLoop(_, _, _, _)
MagnitudesLoop(eqs, i, by_year, offset) ==
    IF i > Len(eqs) THEN Return(by_year)
    ELSE LET y == get_year(eqs[i], offset) IN
         IF y.kind = "raise" THEN MagnitudesLoop(eqs, i + 1, by_year, offset)
         ELSE LET m == get_magnitude(eqs[i]) IN
              IF m.kind = "raise" THEN m
              ELSE MagnitudesLoop(eqs, i + 1, DefaultAppend(by_year, y.val, m.val), offset)

get_magnitudes_per_year(eqs, offset) == MagnitudesLoop(eqs, 1, <<>>, offset)

\* the for loop of plot_number_per_year from record i on
RECURSIVE NumberLoop(_, _, _, _)
NumberLoop(eqs, i, by_year, offset) ==
    IF i > Len(eqs) THEN by_year
    ELSE LET y == get_year(eqs[i], offset) IN
         IF y.kind = "raise" THEN NumberLoop(eqs, i + 1, by_year, offset)
         ELSE NumberLoop(eqs, i + 1, DefaultIncr(by_year, y.val), offset)

\* sorted(S) of a set of integers
RECURSIVE sorted(_)
sorted(S) ==
    IF S = {} THEN <<>>
    ELSE LET lo == CHOOSE x \in S : \A z \in S : x <= z
         IN <<lo>> \o sorted(S \ {lo})

\* the series plot_number_per_year hands to ax.bar
number_per_year(eqs, offset) ==
    LET by_year == NumberLoop(eqs, 1, <<>>, offset)
        years == sorted(DOMAIN by_year)
        counts == [i \in 1..Len(years) |-> by_year[years[i]]]
    IN [years |-> years, counts |-> counts]

RECURSIVE GCD(_, _)
GCD(a, b) == IF b = 0 THEN a ELSE GCD(b, a % b)

\* sum(mags) of a list of floats
RECURSIVE sum(_)
sum(mags) == IF mags = <<>> THEN 0 ELSE mags[1].v + sum(Tail(mags))

\* total / n, a float over an int
TrueDiv(total, n) == LET g == GCD(total, n) IN Frac(total \div g, n \div g)

\* the average of one year's list
MeanCountsNaN(all) ==
    LET mags == SelectSeq(all, LAMBDA m : ~isnan(m)) IN
    IF mags # <<>> THEN TrueDiv(sum(mags), Len(all)) ELSE NaN
Mean(all) ==
    LET mags == SelectSeq(all, LAMBDA m : ~isnan(m)) IN
    IF mags # <<>> THEN TrueDiv(sum(mags), Len(mags)) ELSE NaN

\* the series plot_average_magnitude_per_year hands to ax.plot
average_magnitude_per_year(eqs, offset) ==
    LET mags_by_year == get_magnitudes_per_year(eqs, offset) IN
    IF mags_by_year.kind = "raise" THEN mags_by_year
    ELSE LET years == sorted(DOMAIN mags_by_year.val)
             avgs == [i \in 1..Len(years) |-> Mean(mags_by_year.val[years[i]])]
         IN Return([years |-> years, avgs |-> avgs])

\* fig.savefig(savepath) when savepath is given
Saved(files, savepath) == IF savepath # None THEN files \cup {savepath.s} ELSE files

(***************************************************************************)
(* Specification of the per-year functions: one record list, one call.     *)
(* The records carry no geometry, which these functions never read.        *)
(***************************************************************************)
YearFeatures == {e \in Features : "geometry" \notin DOMAIN e.d}

CountChart == PyStr("quakes_count_per_year.png")
AverageChart == PyStr("quakes_avg_mag_per_year.png")

InitYear ==
    /\ earthquakes \in SeqsUpTo(YearFeatures, MaxQuakes)
    /\ tz \in TzOffsets
    /\ data = None
    /\ earthquake = None
    /\ response = None
    /\ called = "none"
    /\ outcome = None
    /\ calls = 0
    /\ artifacts = {}

GetMagnitudesPerYear ==
    /\ called = "none"
    /\ called' = "get_magnitudes_per_year"
    /\ outcome' = get_magnitudes_per_year(earthquakes, tz)
    /\ UNCHANGED <<data, earthquake, earthquakes, tz, response, calls, artifacts>>

\* show only opens the interactive window, which leaves no state behind
PlotNumberPerYear ==
    /\ called = "none"
    /\ called' = "plot_number_per_year"
    /\ outcome' = Return(number_per_year(earthquakes, tz))
    /\ \E show \in BOOLEAN, savepath \in {None, CountChart} :
          artifacts' = Saved(artifacts, savepath)
    /\ UNCHANGED <<data, earthquake, earthquakes, tz, response, calls>>

PlotAverageMagnitudePerYear ==
    /\ called = "none"
    /\ called' = "plot_average_magnitude_per_year"
    /\ outcome' = average_magnitude_per_year(earthquakes, tz)
    /\ \E show \in BOOLEAN, savepath \in {None, AverageChart} :
          artifacts' = IF outcome'.kind = "return"
                       THEN Saved(artifacts, savepath)
                       ELSE artifacts
    /\ UNCHANGED <<data, earthquake, earthquakes, tz, response, calls>>

NextYear == GetMagnitudesPerYear \/ PlotNumberPerYear \/ PlotAverageMagnitudePerYear

SpecYear == InitYear /\ [][NextYear]_vars

(***************************************************************************)
(* The fetcher.  requests.get either raises (no response arrived) or       *)
(* returns a response: a status code and a body, the body being text that  *)
(* is not JSON or the JSON text of a value.                                *)
(***************************************************************************)
NotJson == [k |-> "text"]
Json(v) == [k |-> "json", value |-> v]
Response(status, body) == [status |-> status, body |-> body]

Timeout == Raise("Timeout", "read timed out (timeout=30)")
ConnectionError == Raise("ConnectionError", "connection failed")
HTTPError == Raise("HTTPError", "4xx/5xx response")
JSONDecodeError == Raise("JSONDecodeError", "response body is not JSON")
UnexpectedStructure ==
    Raise("ValueError", "Unexpected response structure (no 'features' in GeoJSON).")

\* response.raise_for_status() raises
IsErrorStatus(status) == 400 <= status /\ status < 600

\* get_data given what requests.get does: net is its raise or Return(response)
get_data_body_first(net) ==
    IF net.kind = "raise" THEN net
    ELSE LET resp == net.val IN
         IF resp.body = NotJson THEN JSONDecodeError
         ELSE LET parsed == resp.body.value IN
              IF parsed.k # "dict" \/ "features" \notin DOMAIN parsed.d
              THEN UnexpectedStructure
              ELSE IF IsErrorStatus(resp.status) THEN HTTPError
              ELSE Return(parsed)
get_data(net) ==
    IF net.kind = "raise" THEN net
    ELSE LET resp == net.val IN
         IF IsErrorStatus(resp.status) THEN HTTPError
         ELSE IF resp.body = NotJson THEN JSONDecodeError
         ELSE LET parsed == resp.body.value IN
              IF parsed.k # "dict" \/ "features" \notin DOMAIN parsed.d
              THEN UnexpectedStructure
              ELSE Return(parsed)

(***************************************************************************)
(* Specification of the fetcher: one call of get_data against whatever the *)
(* network does.                                                           *)
(***************************************************************************)
StatusCodes == {200, 204, 304, 404, 500}
Bodies == {NotJson} \cup {Json(v) : v \in {None, PyInt(0), EmptyList} \cup CountCollections}
NetOutcomes ==
    {Timeout, ConnectionError}
    \cup {Return(Response(st, b)) : st \in StatusCodes, b \in Bodies}

InitFetch ==
    /\ data = None
    /\ response = None
    /\ earthquake = None
    /\ tz = 0
    /\ earthquakes = <<>>
    /\ called = "none"
    /\ outcome = None
    /\ calls = 0
    /\ artifacts = {}

GetData ==
    /\ called = "none"
    /\ \E net \in NetOutcomes :
          /\ response' = net
          /\ calls' = calls + 1
          /\ called' = "get_data"
          /\ outcome' = get_data(net)
          /\ data' = IF outcome'.kind = "return" THEN outcome'.val ELSE data
    /\ UNCHANGED <<earthquake, earthquakes, tz, artifacts>>

NextFetch == GetData

SpecFetch == InitFetch /\ [][NextFetch]_vars

(***************************************************************************)
(* What the properties below say about a record, read off the record       *)
(* itself rather than through the extractors.                              *)
(***************************************************************************)
HasMagnitude(e) ==
    /\ "properties" \in DOMAIN e.d
    /\ e.d["properties"].k = "dict"
    /\ "mag" \in DOMAIN e.d["properties"].d
    /\ e.d["properties"].d["mag"] # None

\* the record's magnitude, NaN when it has none
RecMag(e) == IF HasMagnitude(e) THEN Float(e.d["properties"].d["mag"].v) ELSE NaN

\* the record's coordinate values, none when geometry or coordinates is absent or null
RecCoords(e) ==
    IF /\ "geometry" \in DOMAIN e.d
       /\ e.d["geometry"].k = "dict"
       /\ "coordinates" \in DOMAIN e.d["geometry"].d
       /\ e.d["geometry"].d["coordinates"].k = "list"
    THEN e.d["geometry"].d["coordinates"].items
    ELSE <<>>

WellFormedCoords(e) == Len(RecCoords(e)) >= 2

\* (latitude, longitude) of a record with well-formed coordinates
RecLoc(e) == <<Float(RecCoords(e)[2].v), Float(RecCoords(e)[1].v)>>

\* the records of a collection, none when features is absent or null
Records(d) ==
    IF "features" \in DOMAIN d.d /\ d.d["features"].k = "list"
    THEN d.d["features"].items
    ELSE <<>>

\* positions of the records with a non-NaN magnitude
ValidAt(recs) == {i \in 1..Len(recs) : HasMagnitude(recs[i])}

\* position i holds the earliest record attaining the greatest non-NaN magnitude
IsSelected(recs, i) ==
    /\ i \in ValidAt(recs)
    /\ \A j \in ValidAt(recs) : RecMag(recs[j]).v <= RecMag(recs[i]).v
    /\ \A j \in ValidAt(recs) : j < i => RecMag(recs[j]).v < RecMag(recs[i]).v

(***************************************************************************)
(* C1: over a non-empty collection with at least one non-NaN magnitude and *)
(* well-formed coordinates throughout, get_maximum returns (M, loc): M the *)
(* greatest non-NaN magnitude, loc the location of the earliest record     *)
(* attaining M.                                                            *)
(***************************************************************************)
C1_MaximumReturnsEarliestGreatest ==
    called = "get_maximum" =>
        LET recs == Records(data) IN
        (/\ ValidAt(recs) # {}
         /\ \A i \in 1..Len(recs) : WellFormedCoords(recs[i]))
        => \E i \in 1..Len(recs) :
              /\ IsSelected(recs, i)
              /\ outcome = Return(<<RecMag(recs[i]), RecLoc(recs[i])>>)

(***************************************************************************)
(* C2: get_maximum raises the empty-result error exactly when there are no *)
(* records and the no-valid-magnitude error exactly when there are records *)
(* and every magnitude is NaN.                                             *)
(***************************************************************************)
C2_MaximumErrorsExactly ==
    called = "get_maximum" =>
        LET recs == Records(data) IN
        /\ outcome = NoFeatures <=> Len(recs) = 0
        /\ outcome = NoValidMagnitude <=> (Len(recs) > 0 /\ ValidAt(recs) = {})

(***************************************************************************)
(* C3: get_magnitude never raises; it returns NaN when the magnitude is    *)
(* absent or null (properties absent or null included) and the value as a  *)
(* float when it is present.                                               *)
(***************************************************************************)
C3_MagnitudeNeverFails ==
    called = "get_magnitude" =>
        /\ outcome.kind = "return"
        /\ outcome = Return(RecMag(earthquake))

(***************************************************************************)
(* C4: count_earthquakes returns the declared metadata count when it is    *)
(* present and an integer, and the number of features in every other case. *)
(***************************************************************************)
DeclaredCount(d) ==
    IF /\ "metadata" \in DOMAIN d.d
       /\ d.d["metadata"].k = "dict"
       /\ "count" \in DOMAIN d.d["metadata"].d
    THEN d.d["metadata"].d["count"]
    ELSE None

C4_CountDeclaredElseLength ==
    called = "count_earthquakes" =>
        IF DeclaredCount(data).k = "int"
        THEN outcome = Return(PyInt(DeclaredCount(data).v))
        ELSE outcome = Return(PyInt(Len(Records(data))))

(***************************************************************************)
(* C8: get_location returns (latitude, longitude) when the record has at   *)
(* least two coordinate values, and raises the missing-coordinates error,  *)
(* and no other, when it has fewer.                                        *)
(***************************************************************************)
C8_LocationOrMissingField ==
    called = "get_location" =>
        IF WellFormedCoords(earthquake)
        THEN outcome = Return(RecLoc(earthquake))
        ELSE outcome = MissingCoordinates

(***************************************************************************)
(* C10: when the earliest record attaining the greatest non-NaN magnitude  *)
(* has malformed coordinates, get_maximum raises the missing-coordinates   *)
(* error of the location lookup.                                           *)
(***************************************************************************)
C10_MalformedWinnerPropagates ==
    called = "get_maximum" =>
        LET recs == Records(data) IN
        \A i \in 1..Len(recs) :
            (IsSelected(recs, i) /\ ~WellFormedCoords(recs[i]))
            => outcome = MissingCoordinates

(***************************************************************************)
(* What the per-year properties say about a record list, read off the      *)
(* records by position.                                                    *)
(***************************************************************************)
\* the record's year can be determined: it has a non-null time
HasYear(e) == HasTime(e) /\ e.d["properties"].d["time"] # None

RecYear(e) == YearFromTimestamp(e.d["properties"].d["time"], tz)

\* positions of the records of year y, and those among them with a magnitude
YearAt(eqs, y) == {i \in 1..Len(eqs) : HasYear(eqs[i]) /\ RecYear(eqs[i]) = y}
ValidYearAt(eqs, y) == {i \in YearAt(eqs, y) : HasMagnitude(eqs[i])}
YearsOf(eqs) == {RecYear(eqs[i]) : i \in {j \in 1..Len(eqs) : HasYear(eqs[j])}}

\* the magnitudes of the records of year y, in input order
MagsOfYear(eqs, y) ==
    LET of_y == SelectSeq(eqs, LAMBDA e : HasYear(e) /\ RecYear(e) = y)
    IN [i \in 1..Len(of_y) |-> RecMag(of_y[i])]

RECURSIVE TotalLen(_, _)
TotalLen(f, S) ==
    IF S = {} THEN 0
    ELSE LET y == CHOOSE x \in S : TRUE IN Len(f[y]) + TotalLen(f, S \ {y})

RECURSIVE MagTotal(_, _)
MagTotal(eqs, S) ==
    IF S = {} THEN 0
    ELSE LET i == CHOOSE x \in S : TRUE IN RecMag(eqs[i]).v + MagTotal(eqs, S \ {i})

Ascending(years) == \A i, j \in 1..Len(years) : i < j => years[i] < years[j]

(***************************************************************************)
(* C5: get_magnitudes_per_year returns a mapping whose keys are exactly    *)
(* the years of the records with a determinable year and whose list for a  *)
(* year is the magnitudes of that year's records in input order; records   *)
(* without a determinable year are skipped without raising, so the lists   *)
(* together hold one entry per record with a determinable year.            *)
(***************************************************************************)
C5_GroupByYear ==
    called = "get_magnitudes_per_year" =>
        /\ outcome.kind = "return"
        /\ DOMAIN outcome.val = YearsOf(earthquakes)
        /\ \A y \in DOMAIN outcome.val : outcome.val[y] = MagsOfYear(earthquakes, y)
        /\ TotalLen(outcome.val, DOMAIN outcome.val)
             = Cardinality({i \in 1..Len(earthquakes) : HasYear(earthquakes[i])})

\* a year holding two different magnitudes, in a list that also has a record
\* without a year
C5_Witness ==
    /\ called = "get_magnitudes_per_year"
    /\ outcome.kind = "return"
    /\ Cardinality(DOMAIN outcome.val) = 1
    /\ \E y \in DOMAIN outcome.val :
          /\ Len(outcome.val[y]) = 2
          /\ outcome.val[y][1] # outcome.val[y][2]
    /\ \E i \in 1..Len(earthquakes) : ~HasYear(earthquakes[i])

(***************************************************************************)
(* C6: the average series lists the years of the grouping in ascending     *)
(* order; a year's value is the sum of its non-NaN magnitudes over their   *)
(* number, and NaN when the year has none.                                 *)
(***************************************************************************)
C6_AveragePerYear ==
    called = "plot_average_magnitude_per_year" =>
        /\ outcome.kind = "return"
        /\ Len(outcome.val.avgs) = Len(outcome.val.years)
        /\ Ascending(outcome.val.years)
        /\ {outcome.val.years[i] : i \in 1..Len(outcome.val.years)} = YearsOf(earthquakes)
        /\ \A i \in 1..Len(outcome.val.years) :
              LET valid == ValidYearAt(earthquakes, outcome.val.years[i])
                  avg == outcome.val.avgs[i]
              IN IF valid = {} THEN avg = NaN
                 ELSE /\ avg # NaN
                      /\ avg.den > 0
                      /\ avg.num * Cardinality(valid) = MagTotal(earthquakes, valid) * avg.den

\* a year whose two magnitudes 1 and 2 sit beside a NaN and average to 3/2
C6_Witness ==
    /\ called = "plot_average_magnitude_per_year"
    /\ outcome.kind = "return"
    /\ \E i \in 1..Len(outcome.val.years) :
          /\ outcome.val.avgs[i] = Frac(3, 2)
          /\ Cardinality(YearAt(earthquakes, outcome.val.years[i])) = 3

(***************************************************************************)
(* C7: the count series agrees with get_magnitudes_per_year: its years are *)
(* the keys of that mapping in ascending order, each count is the length   *)
(* of the year's list, and every count is at least 1.                      *)
(***************************************************************************)
C7_CountMatchesGrouping ==
    called = "plot_number_per_year" =>
        LET grouped == get_magnitudes_per_year(earthquakes, tz)
            years == outcome.val.years
            counts == outcome.val.counts
        IN /\ grouped.kind = "return"
           /\ Len(counts) = Len(years)
           /\ Ascending(years)
           /\ {years[i] : i \in 1..Len(years)} = DOMAIN grouped.val
           /\ \A i \in 1..Len(years) :
                 counts[i] = Len(grouped.val[years[i]]) /\ counts[i] >= 1

\* two years, the later met first, one of them with two records
C7_Witness ==
    /\ called = "plot_number_per_year"
    /\ Len(outcome.val.years) = 2
    /\ outcome.val.counts = <<1, 2>>
    /\ HasYear(earthquakes[1])
    /\ RecYear(earthquakes[1]) = outcome.val.years[2]

(***************************************************************************)
(* What the fetcher properties say about a response.                       *)
(***************************************************************************)
\* a 2xx status
IsSuccess(status) == 200 <= status /\ status < 300

\* the body is the JSON text of a dict with a features key
IsCollection(body) ==
    /\ body # NotJson
    /\ body.value.k = "dict"
    /\ "features" \in DOMAIN body.value.d

(***************************************************************************)
(* C9 as stated: get_data makes one network call and ends in one of three  *)
(* ways: the request error when the status is not a success, the schema    *)
(* error when the status is a success and the parsed body is not a         *)
(* collection with features, the parsed collection otherwise.              *)
(***************************************************************************)
C9_ThreeOutcomes ==
    called = "get_data" =>
        /\ calls = 1
        /\ response.kind = "return"
        /\ IF ~IsSuccess(response.val.status) THEN outcome = HTTPError
           ELSE IF ~IsCollection(response.val.body) THEN outcome = UnexpectedStructure
           ELSE outcome = Return(response.val.body.value)

(***************************************************************************)
(* C9 amended: get_data makes one network call.  When the call raises, its *)
(* error is the outcome.  When it returns a response, the outcome is the   *)
(* request error exactly for a 4xx or 5xx status, whatever the body; else  *)
(* the JSON error of the client when the body is not JSON; else the schema *)
(* error when the parsed body is not a dict with features; else the parsed *)
(* collection, unchanged.                                                  *)
(***************************************************************************)
C9_FetchOutcomes ==
    called = "get_data" =>
        /\ calls = 1
        /\ response.kind = "raise" => outcome = response /\ data = None
        /\ response.kind = "return" =>
              LET status == response.val.status
                  body == response.val.body
              IN /\ outcome = HTTPError <=> status \in 400..599
                 /\ outcome = JSONDecodeError <=>
                       (status \notin 400..599 /\ body = NotJson)
                 /\ outcome = UnexpectedStructure <=>
                       (status \notin 400..599 /\ body # NotJson /\ ~IsCollection(body))
                 /\ outcome.kind = "return" <=>
                       (status \notin 400..599 /\ IsCollection(body))
                 /\ outcome.kind = "return" =>
                       outcome.val = body.value /\ data = body.value

\* a 404 whose body is JSON without features ends in the request error
C9_Witness ==
    /\ called = "get_data"
    /\ response.kind = "return"
    /\ response.val.status = 404
    /\ response.val.body # NotJson
    /\ ~IsCollection(response.val.body)
    /\ outcome = HTTPError

====
